---- MODULE Spec2Model ----
(***************************************************************************)
(* Model of app/main.py of k8s-resilience-pilot: the request               *)
(* instrumentation middleware, the four endpoint handlers, the shared      *)
(* CHAOS_MODE dictionary, the Prometheus collectors and format_uptime.     *)
(*                                                                         *)
(* Requests run as asyncio tasks on one event loop.  Every handler is an   *)
(* `async def` without an await in its body, and the middleware awaits     *)
(* only call_next, so a request is three atomic steps: Begin (lines        *)
(* 93-96), the handler (line 99, inside call_next), Finish (lines          *)
(* 100-109).  Steps of different requests interleave freely.               *)
(*                                                                         *)
(* Floats are fixed-point numbers in units of 1/Scale, plus NaN, which the *)
(* float query parameter `probability` accepts.                            *)
(***************************************************************************)
EXTENDS Integers, Sequences, FiniteSets, TLC

\* ------------------------------------------------------------------ bounds
\* requests accepted in a run, and how many of them may be accepted while
\* another request is still in flight
MaxRequests == 3
MaxOverlaps == 1
\* requests cancelled in a run
MaxCancels == 1
Scale == 10
MaxUptime == 180000

NTasks == MaxOverlaps + 1
Tasks == 1..NTasks

\* ------------------------------------------------------------------ floats
F(v) == [nan |-> FALSE, v |-> v]
NaN == [nan |-> TRUE, v |-> 0]

\* IEEE comparison: every comparison with NaN is false
float_lt(a, b) == ~a.nan /\ ~b.nan /\ a.v < b.v

\* Python's max(a, b): b only if b > a, otherwise the first argument
py_max(a, b) == IF float_lt(a, b) THEN b ELSE a

\* Python's min(a, b): b only if b < a, otherwise the first argument
py_min(a, b) == IF float_lt(b, a) THEN b ELSE a

\* min(max(probability, 0.0), 1.0)
clamp(probability) == py_min(py_max(probability, F(0)), F(Scale))

\* random.random(): a uniform draw in [0.0, 1.0)
RandomDraws == {F(v) : v \in 0..(Scale - 1)}

\* ------------------------------------------------------------------ inputs
Methods == {"GET", "POST"}
Endpoints == {"/", "/health", "/metrics", "/simulate-crash"}
Statuses == {200, 400, 500, 503}
Buckets == Methods \X Endpoints \X Statuses
LatencyKeys == Methods \X Endpoints

KnownModes == {"immediate", "degraded", "reset"}
UnknownModes == {"bogus"}

\* -5, 0, 0.3, 1, 7 and nan
ProbInputs == {F(-5 * Scale), F(0), F(3), F(Scale), F(7 * Scale), NaN}

DefaultMode == "immediate"
DefaultProbability == F(Scale)

Request(method, endpoint, mode, probability) ==
    [method |-> method, endpoint |-> endpoint, mode |-> mode,
     probability |-> probability]

Requests ==
    {Request("GET", e, DefaultMode, DefaultProbability) :
        e \in {"/", "/health", "/metrics"}}
    \cup {Request("POST", "/simulate-crash", m, DefaultProbability) :
        m \in {"immediate", "reset"}}
    \cup {Request("POST", "/simulate-crash", "degraded", p) :
        p \in ProbInputs}
    \cup {Request("POST", "/simulate-crash", m, p) :
        m \in UnknownModes, p \in {DefaultProbability, NaN}}

\* time.time() - START_TIME at the moments the model samples the clock
UptimeSamples == {90061}

\* ------------------------------------------------------------ format_uptime
Part(n, unit) == [n |-> n, unit |-> unit]

\* uptime_parts with the hours taken from the whole duration
uptime_parts_total_hours(seconds) ==
    LET days == seconds \div 86400
        hours == seconds \div 3600
        minutes == (seconds % 3600) \div 60
        secs == seconds % 60
    IN  IF days > 0
        THEN <<Part(days, "d"), Part(hours, "h"), Part(minutes, "m"),
               Part(secs, "s")>>
        ELSE IF hours > 0
        THEN <<Part(hours, "h"), Part(minutes, "m"), Part(secs, "s")>>
        ELSE IF minutes > 0
        THEN <<Part(minutes, "m"), Part(secs, "s")>>
        ELSE <<Part(secs, "s")>>

\* the numbers and units format_uptime puts into its f-string
uptime_parts(seconds) ==
    LET days == seconds \div 86400
        hours == (seconds % 86400) \div 3600
        minutes == (seconds % 3600) \div 60
        secs == seconds % 60
    IN  IF days > 0
        THEN <<Part(days, "d"), Part(hours, "h"), Part(minutes, "m"),
               Part(secs, "s")>>
        ELSE IF hours > 0
        THEN <<Part(hours, "h"), Part(minutes, "m"), Part(secs, "s")>>
        ELSE IF minutes > 0
        THEN <<Part(minutes, "m"), Part(secs, "s")>>
        ELSE <<Part(secs, "s")>>

RECURSIVE Render(_)
Render(parts) ==
    IF parts = <<>> THEN ""
    ELSE ToString(Head(parts).n) \o Head(parts).unit
         \o (IF Len(parts) > 1 THEN " " ELSE "") \o Render(Tail(parts))

format_uptime(seconds) ==
    [parts |-> uptime_parts(seconds), text |-> Render(uptime_parts(seconds))]

\* -------------------------------------------------------------- collectors
\* Counter.labels(...).inc()
Inc(counter, labels) == [counter EXCEPT ![labels] = @ + 1]

RECURSIVE IncAll(_, _)
IncAll(counter, seq) ==
    IF seq = <<>> THEN counter
    ELSE IncAll(Inc(counter, Head(seq)), Tail(seq))

\* Histogram.labels(...).observe(duration): the number of observations
Observe(histogram, labels) == [histogram EXCEPT ![labels] = @ + 1]

RECURSIVE ObserveAll(_, _)
ObserveAll(histogram, seq) ==
    IF seq = <<>> THEN histogram
    ELSE ObserveAll(Observe(histogram, Head(seq)), Tail(seq))

\* ---------------------------------------------------------------- handlers
\* What a handler did: the CHAOS_MODE it leaves, the keys of CHAOS_MODE it
\* assigned, the counter children it incremented itself, and how it ended
\* ("return" with a status and a body, or "HTTPException").
Outcome(chaos, wrote, counted, kind, status_code, body) ==
    [chaos |-> chaos, wrote |-> wrote, counted |-> counted, kind |-> kind,
     status_code |-> status_code, body |-> body]

root(chaos) ==
    Outcome(chaos, {}, <<>>, "return", 200,
            [application |-> "The Resilience Pilot", version |-> "1.0.0",
             endpoints |-> [health |-> "/health", metrics |-> "/metrics",
                            chaos |-> "/simulate-crash"]])

\* the comparison written as `<=`
shouldFail_le(chaos, draw) ==
    chaos.enabled /\ ~chaos.probability.nan /\ draw.v <= chaos.probability.v

\* CHAOS_MODE["enabled"] and random.random() < CHAOS_MODE["probability"]
shouldFail(chaos, draw) == chaos.enabled /\ float_lt(draw, chaos.probability)

\* health_check that switches chaos off once it has failed a probe
health_check_disarms(chaos, draw, uptime) ==
    IF shouldFail(chaos, draw)
    THEN Outcome([enabled |-> FALSE, probability |-> chaos.probability],
                 {"enabled"}, << <<"GET", "/health", 503>> >>,
                 "HTTPException", 503,
                 [detail |-> "Service degraded (chaos mode active)"])
    ELSE Outcome(chaos, {}, <<>>, "return", 200,
                 [status |-> "healthy", uptime |-> uptime,
                  uptime_formatted |-> format_uptime(uptime).text,
                  chaos_mode |-> chaos.enabled])

health_check(chaos, draw, uptime) ==
    IF shouldFail(chaos, draw)
    THEN Outcome(chaos, {}, << <<"GET", "/health", 503>> >>,
                 "HTTPException", 503,
                 [detail |-> "Service degraded (chaos mode active)"])
    ELSE Outcome(chaos, {}, <<>>, "return", 200,
                 [status |-> "healthy", uptime |-> uptime,
                  uptime_formatted |-> format_uptime(uptime).text,
                  chaos_mode |-> chaos.enabled])

\* generate_latest(REGISTRY): the sample values of the collectors
metrics(chaos, counter, histogram, gauge) ==
    Outcome(chaos, {}, <<>>, "return", 200,
            [http_requests_total |-> counter,
             http_request_duration_seconds_count |-> histogram,
             app_uptime_seconds |-> gauge])

\* the detail of the immediate crash (its leading emoji left out)
ChaosMessage == "Chaos injected! This is an intentional crash for testing."

UnknownModeMessage(mode) ==
    "Unknown mode: " \o mode \o ". Use 'immediate', 'degraded', or 'reset'"

\* simulate_crash whose degraded branch assigns "enabled" only
simulate_crash_torn(chaos, mode, probability) ==
    IF mode = "immediate"
    THEN Outcome(chaos, {}, << <<"POST", "/simulate-crash", 500>> >>,
                 "HTTPException", 500, [detail |-> ChaosMessage])
    ELSE IF mode = "degraded"
    THEN Outcome([enabled |-> TRUE, probability |-> chaos.probability],
                 {"enabled"}, <<>>, "return", 200,
                 [status |-> "chaos_enabled", mode |-> "degraded",
                  failure_probability |-> chaos.probability])
    ELSE IF mode = "reset"
    THEN Outcome([enabled |-> FALSE, probability |-> F(0)],
                 {"enabled", "probability"}, <<>>, "return", 200,
                 [status |-> "chaos_disabled",
                  message |-> "Service restored to healthy state"])
    ELSE Outcome(chaos, {}, <<>>, "HTTPException", 400,
                 [detail |-> UnknownModeMessage(mode)])

\* simulate_crash whose reset branch clears "enabled" only
simulate_crash_reset_keeps_probability(chaos, mode, probability) ==
    IF mode = "immediate"
    THEN Outcome(chaos, {}, << <<"POST", "/simulate-crash", 500>> >>,
                 "HTTPException", 500, [detail |-> ChaosMessage])
    ELSE IF mode = "degraded"
    THEN Outcome([enabled |-> TRUE, probability |-> clamp(probability)],
                 {"enabled", "probability"}, <<>>, "return", 200,
                 [status |-> "chaos_enabled", mode |-> "degraded",
                  failure_probability |-> clamp(probability)])
    ELSE IF mode = "reset"
    THEN Outcome([enabled |-> FALSE, probability |-> chaos.probability],
                 {"enabled"}, <<>>, "return", 200,
                 [status |-> "chaos_disabled",
                  message |-> "Service restored to healthy state"])
    ELSE Outcome(chaos, {}, <<>>, "HTTPException", 400,
                 [detail |-> UnknownModeMessage(mode)])

simulate_crash(chaos, mode, probability) ==
    IF mode = "immediate"
    THEN Outcome(chaos, {}, << <<"POST", "/simulate-crash", 500>> >>,
                 "HTTPException", 500, [detail |-> ChaosMessage])
    ELSE IF mode = "degraded"
    THEN Outcome([enabled |-> TRUE, probability |-> clamp(probability)],
                 {"enabled", "probability"}, <<>>, "return", 200,
                 [status |-> "chaos_enabled", mode |-> "degraded",
                  failure_probability |-> clamp(probability)])
    ELSE IF mode = "reset"
    THEN Outcome([enabled |-> FALSE, probability |-> F(0)],
                 {"enabled", "probability"}, <<>>, "return", 200,
                 [status |-> "chaos_disabled",
                  message |-> "Service restored to healthy state"])
    ELSE Outcome(chaos, {}, <<>>, "HTTPException", 400,
                 [detail |-> UnknownModeMessage(mode)])

\* -------------------------------------------------------------- middleware
\* json.dumps(allow_nan=False) of a returned body: a NaN in it is a
\* ValueError
NotJsonCompliant(out) ==
    /\ out.kind = "return"
    /\ "failure_probability" \in DOMAIN out.body
    /\ out.body.failure_probability.nan

\* `await call_next(request)`: an HTTPException of the handler comes back as
\* a response with its status_code, any other exception is raised into the
\* middleware
call_next(out) ==
    IF NotJsonCompliant(out)
    THEN [kind |-> "raise", exc |-> "ValueError", status_code |-> 0,
          body |-> [detail |-> "Out of range float values are not JSON compliant"]]
    ELSE [kind |-> "response", exc |-> "none",
          status_code |-> out.status_code, body |-> out.body]

\* the built-in classes that derive from Exception, and the framework's
\* HTTPException
ExceptionClasses ==
    {"Exception", "ExceptionGroup", "HTTPException", "ArithmeticError",
     "FloatingPointError", "OverflowError", "ZeroDivisionError",
     "AssertionError", "AttributeError", "BufferError", "EOFError",
     "ImportError", "ModuleNotFoundError", "LookupError", "IndexError",
     "KeyError", "MemoryError", "NameError", "UnboundLocalError", "OSError",
     "BlockingIOError", "ChildProcessError", "ConnectionError",
     "BrokenPipeError", "ConnectionAbortedError", "ConnectionRefusedError",
     "ConnectionResetError", "FileExistsError", "FileNotFoundError",
     "InterruptedError", "IsADirectoryError", "NotADirectoryError",
     "PermissionError", "ProcessLookupError", "TimeoutError",
     "ReferenceError", "RuntimeError", "NotImplementedError",
     "RecursionError", "StopAsyncIteration", "StopIteration", "SyntaxError",
     "IndentationError", "TabError", "SystemError", "TypeError",
     "ValueError", "UnicodeError", "UnicodeDecodeError",
     "UnicodeEncodeError", "UnicodeTranslateError",
     "PythonFinalizationError", "Warning", "UserWarning",
     "DeprecationWarning", "PendingDeprecationWarning", "SyntaxWarning",
     "RuntimeWarning", "FutureWarning", "ImportWarning", "UnicodeWarning",
     "BytesWarning", "ResourceWarning", "EncodingWarning"}

\* `except Exception` (line 101): does it catch what call_next raised?  A
\* raise may say so itself (is_exception, for a class defined elsewhere);
\* otherwise its class name decides, and a class that is not known to
\* derive from Exception (CancelledError, KeyboardInterrupt, SystemExit,
\* GeneratorExit, BaseExceptionGroup, any other BaseException) is not
\* caught.
CaughtByExcept(result) ==
    IF "is_exception" \in DOMAIN result THEN result.is_exception
    ELSE result.exc \in ExceptionClasses

\* `await call_next(request)` when the task is cancelled while it waits
cancelled_call_next ==
    [kind |-> "raise", exc |-> "CancelledError", status_code |-> 0,
     body |-> [detail |-> ""]]

\* the middleware with `status = 200` in the except branch
instrument_requests_status_ok(method, endpoint, result) ==
    IF result.kind = "raise" /\ ~CaughtByExcept(result)
    THEN [status |-> 0, counted |-> <<>>, observed |-> <<>>,
          raised |-> "UnboundLocalError"]
    ELSE LET status == IF result.kind = "response"
                       THEN result.status_code ELSE 200
         IN  [status |-> status,
              counted |-> << <<method, endpoint, status>> >>,
              observed |-> << <<method, endpoint>> >>,
              raised |-> IF result.kind = "raise" THEN result.exc
                         ELSE "none"]

\* lines 100-109: the status, the recording in `finally`, then the return
\* of the response or the re-raise.  An exception that `except Exception`
\* does not catch leaves `status` unassigned (0 here): the finally block
\* fails at line 106 with UnboundLocalError before anything is recorded,
\* and that error leaves the middleware in place of the original one.
instrument_requests(method, endpoint, result) ==
    IF result.kind = "raise" /\ ~CaughtByExcept(result)
    THEN [status |-> 0, counted |-> <<>>, observed |-> <<>>,
          raised |-> "UnboundLocalError"]
    ELSE LET status == IF result.kind = "response"
                       THEN result.status_code ELSE 500
         IN  [status |-> status,
              counted |-> << <<method, endpoint, status>> >>,
              observed |-> << <<method, endpoint>> >>,
              raised |-> IF result.kind = "raise" THEN result.exc
                         ELSE "none"]

\* what the client gets: the response, or the server's 500 for an exception
\* that left the middleware
ClientStatus(result, fin) ==
    IF fin.raised = "none" THEN result.status_code ELSE 500

\* ------------------------------------------------------------------- state
VARIABLES
    CHAOS_MODE,       \* the module-level dict {"enabled", "probability"}
    REQUEST_COUNT,    \* http_requests_total, by (method, endpoint, status)
    REQUEST_LATENCY,  \* observations of http_request_duration_seconds
    UPTIME_GAUGE,     \* app_uptime_seconds, in whole seconds
    task,             \* the request each task handles and how far it is
    done,             \* the request that completed last, as it ended
    nreq,             \* requests accepted so far
    overlaps,         \* of these, accepted while another was in flight
    cancels,          \* of these, cancelled while in call_next
    last_write,       \* history: the last degraded or reset call that ran
    writer,           \* history: the request that last assigned each key
    fmt_in,           \* argument of a format_uptime call
    fmt_out           \* its result

vars == <<CHAOS_MODE, REQUEST_COUNT, REQUEST_LATENCY, UPTIME_GAUGE, task,
          done, nreq, overlaps, cancels, last_write, writer,
          fmt_in, fmt_out>>

\* a chaos-control write: the mode and probability of the call, and the
\* CHAOS_MODE it replaced
NoWrite == [mode |-> "none", probability |-> F(0),
            before |-> [enabled |-> FALSE, probability |-> F(0)]]
NoResult == [kind |-> "none", exc |-> "none", status_code |-> 0,
             body |-> [detail |-> ""]]
NoFmt == [parts |-> <<>>, text |-> ""]

IdleTask ==
    [pc |-> "idle", id |-> 0, method |-> "GET", endpoint |-> "/",
     mode |-> DefaultMode, probability |-> DefaultProbability,
     result |-> NoResult, status |-> 0, raised |-> "none",
     client_status |-> 0, incs |-> <<>>, obs |-> <<>>,
     seen |-> NoWrite, seenw |-> [enabled |-> 0, probability |-> 0]]

InitApp ==
    /\ CHAOS_MODE = [enabled |-> FALSE, probability |-> F(0)]
    /\ REQUEST_COUNT = [b \in Buckets |-> 0]
    /\ REQUEST_LATENCY = [k \in LatencyKeys |-> 0]
    /\ UPTIME_GAUGE = 0
    /\ task = [t \in Tasks |-> IdleTask]
    /\ done = IdleTask
    /\ nreq = 0
    /\ overlaps = 0
    /\ cancels = 0
    /\ last_write = NoWrite
    /\ writer = [enabled |-> 0, probability |-> 0]
    /\ fmt_out = NoFmt

Init == InitApp /\ fmt_in = 0

\* ----------------------------------------------------------------- actions
\* lines 93-96: the middleware takes the request and awaits call_next; the
\* request goes to the first free task
Begin(t) ==
    /\ task[t].pc = "idle"
    /\ \A u \in Tasks : u < t => task[u].pc # "idle"
    /\ nreq < MaxRequests
    /\ \E req \in Requests :
        task' = [task EXCEPT ![t] =
                    [IdleTask EXCEPT !.pc = "started", !.id = nreq + 1,
                                     !.method = req.method,
                                     !.endpoint = req.endpoint,
                                     !.mode = req.mode,
                                     !.probability = req.probability]]
    /\ nreq' = nreq + 1
    /\ LET busy == \E u \in Tasks : task[u].pc # "idle"
       IN  /\ busy => overlaps < MaxOverlaps
           /\ overlaps' = IF busy THEN overlaps + 1 ELSE overlaps
    /\ UNCHANGED <<CHAOS_MODE, REQUEST_COUNT, REQUEST_LATENCY, UPTIME_GAUGE,
                   done, cancels, last_write, writer, fmt_in, fmt_out>>

\* a POST /simulate-crash with mode degraded or reset
IsChaosWrite(r) ==
    /\ r.method = "POST" /\ r.endpoint = "/simulate-crash"
    /\ r.mode \in {"degraded", "reset"}

\* the effects of a handler that ended with `out`
Handled(t, out) ==
    /\ CHAOS_MODE' = out.chaos
    /\ REQUEST_COUNT' = IncAll(REQUEST_COUNT, out.counted)
    /\ writer' = [k \in {"enabled", "probability"} |->
                    IF k \in out.wrote THEN task[t].id ELSE writer[k]]
    /\ last_write' = IF ~IsChaosWrite(task[t]) THEN last_write
                     ELSE [mode |-> task[t].mode,
                           probability |-> task[t].probability,
                           before |-> CHAOS_MODE]
    /\ task' = [task EXCEPT ![t] =
                    [@ EXCEPT !.pc = "handled", !.result = call_next(out),
                              !.incs = out.counted, !.seen = last_write,
                              !.seenw = writer]]

Routed(t, method, endpoint) ==
    /\ task[t].pc = "started"
    /\ task[t].method = method
    /\ task[t].endpoint = endpoint

HandleRoot(t) ==
    /\ Routed(t, "GET", "/")
    /\ Handled(t, root(CHAOS_MODE))
    /\ UNCHANGED <<REQUEST_LATENCY, UPTIME_GAUGE, done, nreq, overlaps,
                   cancels, fmt_in, fmt_out>>

HandleHealth(t) ==
    /\ Routed(t, "GET", "/health")
    /\ \E uptime \in UptimeSamples, draw \in RandomDraws :
        /\ uptime >= UPTIME_GAUGE
        /\ UPTIME_GAUGE' = uptime
        /\ Handled(t, health_check(CHAOS_MODE, draw, uptime))
    /\ UNCHANGED <<REQUEST_LATENCY, done, nreq, overlaps, cancels,
                   fmt_in, fmt_out>>

HandleMetrics(t) ==
    /\ Routed(t, "GET", "/metrics")
    /\ \E uptime \in UptimeSamples :
        /\ uptime >= UPTIME_GAUGE
        /\ UPTIME_GAUGE' = uptime
        /\ Handled(t, metrics(CHAOS_MODE, REQUEST_COUNT, REQUEST_LATENCY,
                              uptime))
    /\ UNCHANGED <<REQUEST_LATENCY, done, nreq, overlaps, cancels, fmt_in,
                   fmt_out>>

HandleSimulateCrash(t) ==
    /\ Routed(t, "POST", "/simulate-crash")
    /\ Handled(t, simulate_crash(CHAOS_MODE, task[t].mode,
                                 task[t].probability))
    /\ UNCHANGED <<REQUEST_LATENCY, UPTIME_GAUGE, done, nreq, overlaps,
                   cancels, fmt_in, fmt_out>>

\* the task is cancelled while it waits in `await call_next(request)`.
\* call_next runs the handler in a task of its own, which a cancellation
\* of the waiting middleware does not stop: the handler's effects stay, and
\* what reaches line 99 is CancelledError instead of the handler's result
Cancel(t) ==
    /\ task[t].pc = "handled"
    /\ task[t].result # cancelled_call_next
    /\ cancels < MaxCancels
    /\ cancels' = cancels + 1
    /\ task' = [task EXCEPT ![t] =
                    [@ EXCEPT !.pc = "handled",
                              !.result = cancelled_call_next]]
    /\ UNCHANGED <<CHAOS_MODE, REQUEST_COUNT, REQUEST_LATENCY, UPTIME_GAUGE,
                   done, nreq, overlaps, last_write, writer,
                   fmt_in, fmt_out>>

\* lines 100-109: call_next is back; record, then return or re-raise
Finish(t) ==
    /\ task[t].pc = "handled"
    /\ LET fin == instrument_requests(task[t].method, task[t].endpoint,
                                      task[t].result)
       IN  /\ REQUEST_COUNT' = IncAll(REQUEST_COUNT, fin.counted)
           /\ REQUEST_LATENCY' = ObserveAll(REQUEST_LATENCY, fin.observed)
           /\ done' = [task[t] EXCEPT !.pc = "done", !.status = fin.status,
                                       !.raised = fin.raised,
                                       !.client_status =
                                            ClientStatus(task[t].result, fin),
                                       !.incs = @ \o fin.counted,
                                       !.obs = @ \o fin.observed]
           /\ task' = [task EXCEPT ![t] = IdleTask]
    /\ UNCHANGED <<CHAOS_MODE, UPTIME_GAUGE, nreq, overlaps, last_write,
                   writer, cancels, fmt_in, fmt_out>>

Next ==
    \E t \in Tasks :
        \/ Begin(t)
        \/ HandleRoot(t)
        \/ HandleHealth(t)
        \/ HandleMetrics(t)
        \/ HandleSimulateCrash(t)
        \/ Cancel(t)
        \/ Finish(t)

Spec == Init /\ [][Next]_vars

\* ------------------------------------------------ format_uptime on its own
InitFmt == InitApp /\ fmt_in \in 0..MaxUptime

Format ==
    /\ fmt_out = NoFmt
    /\ fmt_out' = format_uptime(fmt_in)
    /\ UNCHANGED <<CHAOS_MODE, REQUEST_COUNT, REQUEST_LATENCY, UPTIME_GAUGE,
                   task, done, nreq, overlaps, last_write, writer,
                   cancels, fmt_in>>

NextFmt == Format

SpecFmt == InitFmt /\ [][NextFmt]_vars

Served ==
    {task[t] : t \in {u \in Tasks : task[u].pc = "handled"}}
    \cup (IF done.pc = "done" THEN {done} ELSE {})

InFlight == {t \in Tasks : task[t].pc # "idle"}
Quiescent == InFlight = {}

RECURSIVE SumOver(_, _)
SumOver(f, S) ==
    IF S = {} THEN 0
    ELSE LET x == CHOOSE y \in S : TRUE
         IN  f[x] + SumOver(f, S \ {x})

Total(f) == SumOver(f, DOMAIN f)

Occurrences(seq, x) == Cardinality({i \in 1..Len(seq) : seq[i] = x})

Degraded(p) == [enabled |-> TRUE, probability |-> p]

TypeOK ==
    /\ CHAOS_MODE.enabled \in BOOLEAN
    /\ nreq \in 0..MaxRequests
    /\ \A t \in Tasks : task[t].pc \in {"idle", "started", "handled"}
    /\ done.pc \in {"idle", "done"}

\* ------------------------------------------------------------------ claims
IsHealth(r) == r.method = "GET" /\ r.endpoint = "/health"
IsCrash(r) == r.method = "POST" /\ r.endpoint = "/simulate-crash"

\* C1: every request, whether it ends in a response or in a fault, makes
\* the request counters grow by exactly one in total: the completed request
\* made exactly one inc() call, and once nothing is in flight the counters
\* add up to the number of requests.
C1_OneIncrementPerRequest ==
    /\ done.pc = "done" => Len(done.incs) = 1
    /\ Quiescent => Total(REQUEST_COUNT) = nreq

\* C2: every POST /simulate-crash with mode=immediate answers 500 with the
\* fixed chaos message and adds exactly one to the counter child
\* (POST, /simulate-crash, 500).
C2_ImmediateCountsOnce ==
    (done.pc = "done" /\ IsCrash(done) /\ done.mode = "immediate") =>
        /\ done.client_status = 500
        /\ done.result.body.detail = ChaosMessage
        /\ Occurrences(done.incs, <<"POST", "/simulate-crash", 500>>) = 1

\* C3: a GET /health whose handler runs while the last chaos-control write
\* is degraded with probability 1.0 returns 503 to the client, however many
\* health checks came before it: every draw is below the stored 1.0.
C3_DegradedOneAlwaysFails ==
    /\ last_write.mode = "degraded" /\ last_write.probability = F(Scale) =>
            \A draw \in RandomDraws : shouldFail(CHAOS_MODE, draw)
    /\ (/\ done.pc = "done" /\ IsHealth(done)
        /\ done.seen.mode = "degraded"
        /\ done.seen.probability = F(Scale)) =>
            /\ done.client_status = 503
            /\ done.result.kind = "response"
            /\ done.result.status_code = 503

\* C4: while the last chaos-control write is a reset, shouldFail is false
\* for every draw, and a GET /health whose handler runs then returns 200
\* with chaos_mode false to the client, whatever the reset replaced.
C4_ResetAlwaysHealthy ==
    /\ last_write.mode = "reset" =>
            \A draw \in RandomDraws : ~shouldFail(CHAOS_MODE, draw)
    /\ (done.pc = "done" /\ IsHealth(done) /\ done.seen.mode = "reset") =>
            /\ done.client_status = 200
            /\ done.result.kind = "response"
            /\ done.result.status_code = 200
            /\ done.result.body.chaos_mode = FALSE

\* C5: the handler step of a POST /simulate-crash with an unknown mode
\* leaves CHAOS_MODE as it was and ends in a 400, with the default
\* probability or with nan, and the request returns that 400 to the client.
C5_UnknownModeStep ==
    \A t \in Tasks :
        (/\ task[t].pc = "started" /\ task'[t].pc = "handled"
         /\ IsCrash(task[t]) /\ task[t].mode \notin KnownModes) =>
            /\ CHAOS_MODE' = CHAOS_MODE
            /\ task'[t].result.kind = "response"
            /\ task'[t].result.status_code = 400
            /\ task'[t].result.body.detail = UnknownModeMessage(task[t].mode)

C5_UnknownModeDone ==
    (/\ done'.pc = "done"
     /\ IsCrash(done') /\ done'.mode \notin KnownModes) =>
        done'.client_status = 400

C5_UnknownModeRejected == [][C5_UnknownModeStep /\ C5_UnknownModeDone]_vars

InUnitInterval(p) == ~p.nan /\ 0 <= p.v /\ p.v <= Scale

Clamp01(p) == IF p.v < 0 THEN F(0) ELSE IF p.v > Scale THEN F(Scale) ELSE p

\* C7: the stored probability always lies in [0, 1], and while a degraded
\* call with probability p is the last chaos-control write the state is
\* enabled with probability clamp(p, 0, 1).
C7_ProbabilityClamped ==
    /\ InUnitInterval(CHAOS_MODE.probability)
    /\ (last_write.mode = "degraded" /\ ~last_write.probability.nan) =>
            CHAOS_MODE = Degraded(Clamp01(last_write.probability))

\* C8: every completed request, ended by a response or by a fault, has
\* exactly one latency observation, under its own method and path; no
\* handler records one, so the observations add up to the completed requests.
C8_OneObservationPerRequest ==
    /\ done.pc = "done" => done.obs = << <<done.method, done.endpoint>> >>
    /\ \A t \in Tasks : task[t].obs = <<>>
    /\ Total(REQUEST_LATENCY) = nreq - Cardinality(InFlight)

Units == <<"d", "h", "m", "s">>

\* the number rendered with a unit, 0 when the unit is not rendered
Rendered(parts, unit) ==
    LET at == {i \in 1..Len(parts) : parts[i].unit = unit}
    IN  IF at = {} THEN 0 ELSE parts[CHOOSE i \in at : TRUE].n

\* C9: format_uptime(d) renders one of the four patterns, the one that
\* starts at the largest nonzero unit (seconds only below a minute), every
\* lower unit included; the numbers are d's breakdown with hours < 24,
\* minutes < 60, seconds < 60 and recombine to d.
C9_FormatUptime ==
    fmt_out # NoFmt =>
        LET parts == fmt_out.parts
            n == Len(parts)
            D == Rendered(parts, "d")
            H == Rendered(parts, "h")
            M == Rendered(parts, "m")
            S == Rendered(parts, "s")
        IN  /\ n \in 1..4
            /\ [i \in 1..n |-> parts[i].unit] = SubSeq(Units, 5 - n, 4)
            /\ n = 4 <=> fmt_in >= 86400
            /\ n = 3 <=> (fmt_in >= 3600 /\ fmt_in < 86400)
            /\ n = 2 <=> (fmt_in >= 60 /\ fmt_in < 3600)
            /\ n > 1 => parts[1].n > 0
            /\ \A i \in 1..n : parts[i].n >= 0
            /\ H < 24 /\ M < 60 /\ S < 60
            /\ 86400 * D + 3600 * H + 60 * M + S = fmt_in
            /\ fmt_in = 90061 => fmt_out.text = "1d 1h 1m 1s"
            /\ fmt_in = 3661 => fmt_out.text = "1h 1m 1s"
            /\ fmt_in = 61 => fmt_out.text = "1m 1s"
            /\ fmt_in = 5 => fmt_out.text = "5s"
            /\ fmt_in = 86400 => fmt_out.text = "1d 0h 0m 0s"

\* a duration of more than a day whose lower units are all zero is rendered
C9_Witness ==
    /\ fmt_in = 172800
    /\ fmt_out.text = "2d 0h 0m 0s"

\* C10: CHAOS_MODE is never torn: both keys were last assigned by the same
\* chaos-control call in every state, and in particular in the state each
\* health check evaluated, under any interleaving of the requests.
C10_NoTornChaosState ==
    /\ writer.enabled = writer.probability
    /\ \A r \in Served :
        IsHealth(r) => r.seenw.enabled = r.seenw.probability

\* a health check evaluated the state written by a chaos-control call that
\* was accepted after it
C10_Witness ==
    /\ done.pc = "done" /\ IsHealth(done)
    /\ overlaps = 1
    /\ done.seenw.enabled > done.id
    /\ done.seenw.probability = done.seenw.enabled

\* C11: when call_next raises an unmapped fault, the step in which the
\* middleware ends adds one to the counter child (method, path, 500) and one
\* latency observation for the request, and the fault that leaves the
\* middleware in that step is the one call_next raised.
C11_FaultStep ==
    \A t \in Tasks :
        (/\ task[t].pc = "handled" /\ task'[t].pc = "idle"
         /\ task[t].result.kind = "raise") =>
            LET r == task[t]
                b == <<r.method, r.endpoint, 500>>
                k == <<r.method, r.endpoint>>
            IN  /\ REQUEST_COUNT' = [REQUEST_COUNT EXCEPT ![b] = @ + 1]
                /\ REQUEST_LATENCY' = [REQUEST_LATENCY EXCEPT ![k] = @ + 1]
                /\ done'.id = r.id
                /\ done'.status = 500
                /\ done'.raised = r.result.exc
                /\ done'.raised # "none"
                /\ done'.client_status = 500

C11_UnmappedFaultRecorded == [][C11_FaultStep]_vars

\* the status code the client gets for a request, by the way it ended
ExpectedStatus(r) ==
    IF r.result.kind = "raise" THEN {500}
    ELSE IF IsHealth(r) THEN {200, 503}
    ELSE IF IsCrash(r) /\ r.mode = "immediate" THEN {500}
    ELSE IF IsCrash(r) /\ r.mode \notin KnownModes THEN {400}
    ELSE {200}

\* C12: the status label of the middleware's increment (the last inc() of
\* the request) is the status code the client receives: 200 on success,
\* 503 for a chaos-triggered health failure, 500 for immediate mode, 400 for
\* an unknown mode, 500 for an unmapped fault.  A cancelled request, for
\* which the middleware never assigns `status`, has no such increment.
C12_LabelIsClientStatus ==
    (done.pc = "done" /\ done.status # 0) =>
        /\ done.incs # <<>>
        /\ done.incs[Len(done.incs)] =
                <<done.method, done.endpoint, done.client_status>>
        /\ done.status = done.client_status
        /\ done.client_status \in ExpectedStatus(done)
        /\ (IsHealth(done) /\ done.client_status = 503) =>
                done.result.body.detail = "Service degraded (chaos mode active)"

\* a chaos-triggered health failure reached the client as 503 and was
\* counted by the middleware under 503
C12_Witness ==
    /\ done.pc = "done" /\ IsHealth(done)
    /\ done.client_status = 503
    /\ done.incs[Len(done.incs)] = <<"GET", "/health", 503>>

\* the step in which the handler of task t runs
HandlerStep(t) ==
    /\ task[t].pc = "started" /\ task'[t].pc = "handled"

\* C13: CHAOS_MODE changes only in the handler step of a POST
\* /simulate-crash with mode degraded or reset; the handler steps of GET /,
\* GET /health (200 or 503), GET /metrics and of mode=immediate, and every
\* other step, leave both keys unchanged.
C13_OnlyChaosWritesStep ==
    /\ CHAOS_MODE' # CHAOS_MODE =>
            \E t \in Tasks : HandlerStep(t) /\ IsChaosWrite(task[t])
    /\ \A t \in Tasks :
        (HandlerStep(t) /\ ~IsChaosWrite(task[t])) =>
            /\ CHAOS_MODE'.enabled = CHAOS_MODE.enabled
            /\ CHAOS_MODE'.probability = CHAOS_MODE.probability

C13_OnlyChaosControlWrites == [][C13_OnlyChaosWritesStep]_vars

\* a health check failed with 503 and an immediate crash was served, and
\* degraded(0.3) is still in force
C13_Witness ==
    /\ done.pc = "done" /\ IsCrash(done) /\ done.mode = "immediate"
    /\ REQUEST_COUNT[<<"GET", "/health", 503>>] >= 1
    /\ CHAOS_MODE = Degraded(F(3))
    /\ last_write.mode = "degraded"

\* C14: the handler step of a GET /health ends in 503 only from a state
\* with enabled true and a probability above 0; with chaos disabled, or
\* enabled at probability 0, it ends in 200, and the chaos_mode of a 200 is
\* the enabled flag of that state.
C14_HealthStep ==
    \A t \in Tasks :
        (HandlerStep(t) /\ IsHealth(task[t])) =>
            LET res == task'[t].result
            IN  /\ res.kind = "response"
                /\ res.status_code \in {200, 503}
                /\ res.status_code = 503 =>
                        /\ CHAOS_MODE.enabled
                        /\ ~CHAOS_MODE.probability.nan
                        /\ CHAOS_MODE.probability.v > 0
                /\ (~CHAOS_MODE.enabled \/ CHAOS_MODE.probability = F(0)) =>
                        res.status_code = 200
                /\ res.status_code = 200 =>
                        res.body.chaos_mode = CHAOS_MODE.enabled

Disabled == [enabled |-> FALSE, probability |-> F(0)]

\* C15: CHAOS_MODE is the state set by the last degraded or reset call
\* alone, whatever came before it and whatever immediate or unknown-mode
\* calls came after it: {true, clamp(p, 0, 1)}, a probability in [0, 1],
\* after degraded(p), {false, 0.0} after reset or before any write.
C15_LastWriteAlone ==
    /\ last_write.mode = "none" => CHAOS_MODE = Disabled
    /\ last_write.mode = "reset" => CHAOS_MODE = Disabled
    /\ last_write.mode = "degraded" =>
            /\ CHAOS_MODE.enabled
            /\ InUnitInterval(CHAOS_MODE.probability)
            /\ ~last_write.probability.nan =>
                    CHAOS_MODE.probability = Clamp01(last_write.probability)

\* C16: whenever enabled is false the stored probability is 0.0.
C16_DisabledMeansZero ==
    ~CHAOS_MODE.enabled => CHAOS_MODE.probability = F(0)

\* a reset has replaced degraded(0.3) and left probability 0.0
C16_Witness ==
    /\ last_write.mode = "reset"
    /\ last_write.before = Degraded(F(3))
    /\ CHAOS_MODE = Disabled

====
